---- MODULE Spec2Model ----
(***************************************************************************)
(* Model of plugins/wan2gp-auto-composer/plugin.py (AutoVideoComposer).    *)
(*                                                                         *)
(* Strings are sequences of one-character strings.  One representative     *)
(* per character class of the split regex is kept: a letter, a sentence    *)
(* terminal of [.!?], a blank of \s that is no line break, and a line      *)
(* break of [\n\r].                                                        *)
(*                                                                         *)
(* The float arguments are fixed-point numbers: total_minutes counts       *)
(* 1/Scale minutes and segment_seconds counts 1/Scale seconds, so that     *)
(* every product and quotient of the code is an exact rational here.       *)
(* Binary floating-point rounding error is outside the model.              *)
(***************************************************************************)
EXTENDS Integers, Sequences, FiniteSets, TLC

VARIABLES
  pc,     \* "call": the arguments are chosen; "return": the function has returned
  args,   \* the arguments of the function under way (a record)
  ret,    \* what it returned (<<>> before it returns)
  self,   \* the attributes of the plugin object the host has injected
  host,   \* what the host's callbacks answer (model selection, settings)
  gen,    \* the host's generation dictionary: "queue" and "prompts_max"
  log     \* the calls the last _create_segments made to the core and the host

vars == <<pc, args, ret, self, host, gen, log>>

-----------------------------------------------------------------------------
(* Bounds *)

MaxPromptLen == 7
MaxSegments == 4

\* the fixed point of total_minutes and segment_seconds
Scale == 1000

\* total_minutes ranges over MinutesGrain/Scale .. MaxTotalUnits*MinutesGrain/Scale
MinutesGrain == 25
MaxTotalUnits == 2

\* segment_seconds ranges over SegmentGrain/Scale .. MaxSegmentUnits*SegmentGrain/Scale
SegmentGrain == 125
MaxSegmentUnits == 14

MaxFps == 8
MaxMinFrames == 5
MaxFrameStep == 4

\* the longest host queue the model lets _create_segments build
MaxQueue == 4

-----------------------------------------------------------------------------
(* Arithmetic helpers *)

Max(a, b) == IF a >= b THEN a ELSE b

Min(a, b) == IF a <= b THEN a ELSE b

\* math.ceil(n / d) for n >= 0, d > 0
Ceil(n, d) == (n + d - 1) \div d

\* Python 3 round(n / d) for n >= 0, d > 0: to nearest, ties to even
Round(n, d) ==
  LET q == n \div d
      r == n % d
  IN  IF 2 * r < d THEN q
      ELSE IF 2 * r > d THEN q + 1
      ELSE IF q % 2 = 0 THEN q ELSE q + 1

-----------------------------------------------------------------------------
(* Strings *)

Letter == "a"
Terminal == "."
Blank == " "
LineBreak == "\n"

Alphabet == {Letter, Terminal, Blank, LineBreak}

\* \s of the regex, and what str.strip() removes
Whitespace == {Blank, LineBreak}

Strings(n) == UNION {[1..k -> Alphabet] : k \in 0..n}

RECURSIVE LStrip(_)
LStrip(s) ==
  IF s # <<>> /\ Head(s) \in Whitespace THEN LStrip(Tail(s)) ELSE s

RECURSIVE RStrip(_)
RStrip(s) ==
  IF s # <<>> /\ s[Len(s)] \in Whitespace
  THEN RStrip(SubSeq(s, 1, Len(s) - 1))
  ELSE s

\* str.strip()
Strip(s) == RStrip(LStrip(s))

\* the last index of the maximal run of characters of class cls starting at i
RECURSIVE RunEnd(_, _, _)
RunEnd(s, i, cls) ==
  IF i < Len(s) /\ s[i + 1] \in cls THEN RunEnd(s, i + 1, cls) ELSE i

\* re.split(r"[\n\r]+|(?<=[.!?])\s+", s): the scan is at position i, cur is
\* the part collected since the last separator, acc the parts already cut.
RECURSIVE ReSplitFrom(_, _, _, _)
ReSplitFrom(s, i, cur, acc) ==
  IF i > Len(s) THEN Append(acc, cur)
  ELSE IF s[i] = LineBreak
       THEN ReSplitFrom(s, RunEnd(s, i, {LineBreak}) + 1, <<>>, Append(acc, cur))
  ELSE IF i > 1 /\ s[i - 1] = Terminal /\ s[i] \in Whitespace
       THEN ReSplitFrom(s, RunEnd(s, i, Whitespace) + 1, <<>>, Append(acc, cur))
  ELSE ReSplitFrom(s, i + 1, Append(cur, s[i]), acc)

ReSplit(s) == ReSplitFrom(s, 1, <<>>, <<>>)

\* [part.strip() for part in parts if part.strip()]
RECURSIVE StripNonEmpty(_)
StripNonEmpty(parts) ==
  IF parts = <<>> THEN <<>>
  ELSE LET p == Strip(Head(parts))
       IN  IF p = <<>> THEN StripNonEmpty(Tail(parts))
           ELSE <<p>> \o StripNonEmpty(Tail(parts))

\* the sentence units of a prompt
Sentences(prompt) == StripNonEmpty(ReSplit(prompt))

\* " ".join(units)
RECURSIVE Join(_)
Join(units) ==
  IF units = <<>> THEN <<>>
  ELSE IF Len(units) = 1 THEN Head(units)
  ELSE Head(units) \o <<Blank>> \o Join(Tail(units))

\* units[cursor : cursor + size] with a 0-based cursor
Slice(units, cursor, size) ==
  SubSeq(units, cursor + 1, Min(cursor + size, Len(units)))

\* chunk_size with the quotient truncated instead of rounded up
chunk_size_floor(sentences, segments) == Max(1, Len(sentences) \div segments)

chunk_size(sentences, segments) == Max(1, Ceil(Len(sentences), segments))

\* the list `chunk` of the k-th pass of the loop (k = 1..segments), whose
\* cursor is (k - 1) * chunk_size
Window(sentences, segments, k) ==
  LET size == chunk_size(sentences, segments)
      chunk == Slice(sentences, (k - 1) * size, size)
  IN  IF chunk = <<>> THEN <<sentences[Len(sentences)]>> ELSE chunk

\* _split_prompt without the fallback: a pass whose slice is empty appends
\* nothing
_split_prompt_no_fallback(prompt, segments) ==
  LET sentences == Sentences(prompt)
      size == chunk_size(sentences, segments)
      filled == {k \in 1..segments : (k - 1) * size < Len(sentences)}
  IN  IF sentences = <<>>
      THEN [k \in 1..segments |-> Strip(prompt)]
      ELSE [k \in 1..Cardinality(filled) |-> Join(Slice(sentences, (k - 1) * size, size))]

_split_prompt(prompt, segments) ==
  LET sentences == Sentences(prompt)
  IN  IF sentences = <<>>
      THEN [k \in 1..segments |-> Strip(prompt)]
      ELSE [k \in 1..segments |-> Join(Window(sentences, segments, k))]

-----------------------------------------------------------------------------
(* _build_segments_plan *)

total_seconds(total_minutes) == total_minutes * 60

\* segments_count with the quotient truncated instead of rounded up
segments_count_floor(total_minutes, segment_seconds) ==
  Max(1, total_seconds(total_minutes) \div segment_seconds)

segments_count(total_minutes, segment_seconds) ==
  Max(1, Ceil(total_seconds(total_minutes), segment_seconds))

\* duration whose last pass takes the remainder without the max
duration_remainder(idx, total_minutes, segment_seconds) ==
  LET count == segments_count(total_minutes, segment_seconds)
  IN  IF idx < count - 1
      THEN segment_seconds
      ELSE total_seconds(total_minutes) - segment_seconds * (count - 1)

\* the local `duration` of pass idx (0-based) of the loop
duration(idx, total_minutes, segment_seconds) ==
  LET count == segments_count(total_minutes, segment_seconds)
  IN  IF idx < count - 1
      THEN segment_seconds
      ELSE Max(segment_seconds,
               total_seconds(total_minutes) - segment_seconds * (count - 1))

\* rounded_steps that rounds duration * fps and truncates the division by
\* frame_step
rounded_steps_truncated(dur, fps, frame_step) ==
  Round(dur * fps, Scale) \div frame_step

\* int(round(duration * fps / frame_step)): the quotient, rounded
rounded_steps(dur, fps, frame_step) == Round(dur * fps, Scale * frame_step)

frames(dur, fps, min_frames, frame_step) ==
  Max(min_frames, rounded_steps(dur, fps, frame_step) * frame_step)

\* round(duration, 2), in hundredths of a second
seconds(dur) == Round(dur * 100, Scale)

Continuity == ". Houd stijl, personages en camera gelijkmatig)."

\* segment_prompt that annotates the 0-based idx
segment_prompt_zero_based(chunk, idx, count) ==
  chunk \o <<Blank, "(Segment ", ToString(idx), "/", ToString(count), Continuity>>

segment_prompt(chunk, idx, count) ==
  chunk \o <<Blank, "(Segment ", ToString(idx + 1), "/", ToString(count), Continuity>>

_build_segments_plan(prompt, total_minutes, segment_seconds, fps, min_frames, frame_step) ==
  LET count == segments_count(total_minutes, segment_seconds)
      chunks == _split_prompt(prompt, count)
  IN  [k \in 1..count |->
         LET idx == k - 1
             dur == duration(idx, total_minutes, segment_seconds)
         IN  [index   |-> idx + 1,
              prompt  |-> segment_prompt(chunks[idx + 1], idx, count),
              seconds |-> seconds(dur),
              frames  |-> frames(dur, fps, min_frames, frame_step)]]

-----------------------------------------------------------------------------
(* _render_summary, _validate_inputs, _build_error_response *)

\* one row per segment under the header; a row keeps the values the
\* f-string formats
_render_summary(plan) ==
  <<"### Segmenten">> \o
  [k \in 1..Len(plan) |->
     <<"- Segment ", plan[k].index, plan[k].seconds, plan[k].frames, plan[k].prompt>>]

\* _validate_inputs that tries total_minutes before the prompt
_validate_inputs_reordered(prompt, total_minutes, segment_seconds) ==
  IF total_minutes <= 0
  THEN "Totale duur moet groter dan nul zijn."
  ELSE IF prompt = <<>> \/ Len(Strip(prompt)) = 0
  THEN "Prompt mag niet leeg zijn."
  ELSE IF segment_seconds <= 0
  THEN "Segmentlengte moet groter dan nul zijn."
  ELSE "None"

\* "None" is Python's None
_validate_inputs(prompt, total_minutes, segment_seconds) ==
  IF prompt = <<>> \/ Len(Strip(prompt)) = 0
  THEN "Prompt mag niet leeg zijn."
  ELSE IF total_minutes <= 0
  THEN "Totale duur moet groter dan nul zijn."
  ELSE IF segment_seconds <= 0
  THEN "Segmentlengte moet groter dan nul zijn."
  ELSE "None"

\* the prefix of the text of an error response
WarningSign == "(warning sign) "

\* the value gr.update() builds
GrUpdate == "gr.update()"

\* The returned tuple of output values: one value when Python returns the
\* bare string, two when it returns the pair.
_build_error_response(message, include_queue) ==
  IF include_queue
  THEN <<<<WarningSign, message>>, GrUpdate>>
  ELSE <<<<WarningSign, message>>>>

-----------------------------------------------------------------------------
(* Dictionaries *)

EmptyDict == [k \in {} |-> k]

\* d.pop(key, None)
Pop(d, key) == [k \in DOMAIN d \ {key} |-> d[k]]

\* d.setdefault(key, value), as the dictionary it leaves
SetDefault(d, key, value) == IF key \in DOMAIN d THEN d ELSE d @@ (key :> value)

\* d.get(key, default)
Get(d, key, default) == IF key \in DOMAIN d THEN d[key] ELSE default

\* d.update(e), as the dictionary it leaves
Update(d, e) == e @@ d

-----------------------------------------------------------------------------
(* The host *)

\* add_video_task(**kwargs): the host appends one task to gen["queue"]
add_video_task(g, kwargs) == [g EXCEPT !["queue"] = Append(@, kwargs)]

\* update_queue_data(queue): the refreshed queue view
update_queue_data(queue) == [queue |-> queue]

\* the settings of the plugin's test, and settings that carry a preset name,
\* a mode and the prompt and length of the host's own form
PlainSettings == [force_fps |-> "", video_guide |-> "None", video_source |-> "None"]

FormSettings ==
  [force_fps |-> "", lset_name |-> "preset", mode |-> "edit",
   prompt |-> <<Letter>>, video_length |-> 81]

\* a model the plugin can plan for
GoodHost(settings) ==
  [settings        |-> <<settings>>,
   model_type      |-> "type-a",
   model_filename  |-> "model.safetensors",
   base_model_type |-> "base-type",
   fps             |-> [numeric |-> TRUE, value |-> MaxFps],
   min_frames      |-> MaxMinFrames,
   frame_step      |-> MaxFrameStep]

\* <<>> is a get_current_model_settings that answers None
Hosts ==
  LET good == GoodHost(PlainSettings)
  IN  { good,
        GoodHost(FormSettings),
        [good EXCEPT !.settings = <<>>],
        [good EXCEPT !.base_model_type = "None"],
        [good EXCEPT !.fps = [numeric |-> FALSE, value |-> 0]],
        [good EXCEPT !.fps = [numeric |-> TRUE, value |-> 0]],
        [good EXCEPT !.min_frames = 0],
        [good EXCEPT !.frame_step = 0] }

-----------------------------------------------------------------------------
(* The plugin object and the host outside a _create_segments call *)

NoSelf == [queue_html_container |-> FALSE, update_queue_data |-> FALSE]

NoHost == GoodHost(PlainSettings)

NoGen == EmptyDict

NoLog == [core |-> FALSE, tasks |-> <<>>, warnings |-> <<>>]

NoArgs == [prompt |-> <<>>, total_minutes |-> 0, segment_seconds |-> 0]

-----------------------------------------------------------------------------
(* _create_segments *)

\* the keyword arguments of the add_video_task call of one segment
segment_settings(settings, segment, count, h) ==
  Update(settings,
         [prompt         |-> segment.prompt,
          video_length   |-> segment.frames,
          state          |-> "state",
          model_type     |-> h.model_type,
          model_filename |-> h.model_filename,
          plugin_data    |->
            [auto_video_composer |->
               [segment         |-> segment.index,
                total_segments  |-> count,
                segment_seconds |-> segment.seconds,
                fps             |-> h.fps.value]]])

\* the for loop: one add_video_task per segment, in plan order
RECURSIVE add_tasks(_, _)
add_tasks(g, tasks) ==
  IF tasks = <<>> THEN g
  ELSE add_tasks(add_video_task(g, Head(tasks)), Tail(tasks))

\* bump_prompts_max that counts the call instead of its segments
bump_prompts_max_by_one(g, segments_plan) ==
  [SetDefault(g, "prompts_max", 0) EXCEPT
     !["prompts_max"] = Get(g, "prompts_max", 0) + 1]

\* gen["prompts_max"] = gen.get("prompts_max", 0) + len(segments_plan)
bump_prompts_max(g, segments_plan) ==
  [SetDefault(g, "prompts_max", 0) EXCEPT
     !["prompts_max"] = Get(g, "prompts_max", 0) + Len(segments_plan)]

\* What a call returns and leaves behind: [ret, gen, log].
_create_segments(prompt, total_minutes, segment_seconds) ==
  LET errors == _validate_inputs(prompt, total_minutes, segment_seconds)
      has_queue_output == self.queue_html_container
      failure(response, message) ==
        [ret |-> response, gen |-> gen,
         log |-> [core |-> FALSE, tasks |-> <<>>, warnings |-> <<message>>]]
      NoSettings == "Kon de huidige modelinstellingen niet ophalen."
      NoBase == "Kon de basismodelgegevens niet bepalen. Kies een geldig model en probeer opnieuw."
      NoFps == "Kon een geldige FPS-waarde niet bepalen. Controleer de modelinstellingen."
      NoFrames == "Modelconfiguratie heeft ongeldige frame-waarden. Controleer het geselecteerde model."
  IN
  IF errors # "None"
  THEN failure(_build_error_response(errors, has_queue_output), errors)
  ELSE IF host.settings = <<>>
  THEN failure(_build_error_response(NoSettings, FALSE), NoSettings)
  ELSE IF host.base_model_type = "None"
  THEN failure(_build_error_response(NoBase, has_queue_output), NoBase)
  ELSE IF ~host.fps.numeric \/ host.fps.value <= 0
  THEN failure(_build_error_response(NoFps, has_queue_output), NoFps)
  ELSE IF host.min_frames <= 0 \/ host.frame_step <= 0
  THEN failure(_build_error_response(NoFrames, has_queue_output), NoFrames)
  ELSE
    LET settings == SetDefault(Pop(host.settings[1], "lset_name"), "mode", "")
        segments_plan ==
          _build_segments_plan(prompt, total_minutes, segment_seconds,
                               host.fps.value, host.min_frames, host.frame_step)
        tasks == [k \in 1..Len(segments_plan) |->
                    segment_settings(settings, segments_plan[k], Len(segments_plan), host)]
        queued == add_tasks(SetDefault(gen, "queue", <<>>), tasks)
        counted == bump_prompts_max(queued, segments_plan)
        summary_md == _render_summary(segments_plan)
    IN  [ret |-> IF self.update_queue_data
                 THEN <<summary_md, update_queue_data(counted["queue"])>>
                 ELSE <<summary_md>>,
         gen |-> counted,
         log |-> [core |-> TRUE, tasks |-> tasks, warnings |-> <<>>]]

-----------------------------------------------------------------------------
(* _split_prompt applied to every prompt and segment count of the bounds *)

InitSplit ==
  /\ pc = "call"
  /\ args \in [prompt : Strings(MaxPromptLen), segments : 1..MaxSegments]
  /\ ret = <<>>
  /\ self = NoSelf
  /\ host = NoHost
  /\ gen = NoGen
  /\ log = NoLog

SplitPrompt ==
  /\ pc = "call"
  /\ pc' = "return"
  /\ ret' = _split_prompt(args.prompt, args.segments)
  /\ UNCHANGED <<args, self, host, gen, log>>

SpecSplit == InitSplit /\ [][SplitPrompt]_vars

-----------------------------------------------------------------------------
(* _build_segments_plan applied to every valid parameter of the bounds *)

OneUnit == <<Letter>>
TwoUnits == <<Letter, Terminal, Blank, Letter>>
ThreeUnits == <<Letter, LineBreak, Terminal, LineBreak, Letter, Letter>>

PlanPrompts == {OneUnit, TwoUnits, ThreeUnits}

TotalMinutes == {MinutesGrain * k : k \in 1..MaxTotalUnits}

SegmentSeconds == {SegmentGrain * k : k \in 1..MaxSegmentUnits}

InitPlan ==
  /\ pc = "call"
  /\ args \in [prompt : PlanPrompts,
               total_minutes : TotalMinutes,
               segment_seconds : SegmentSeconds,
               fps : 1..MaxFps,
               min_frames : 1..MaxMinFrames,
               frame_step : 1..MaxFrameStep]
  /\ ret = <<>>
  /\ self = NoSelf
  /\ host = NoHost
  /\ gen = NoGen
  /\ log = NoLog

BuildSegmentsPlan ==
  /\ pc = "call"
  /\ pc' = "return"
  /\ ret' = _build_segments_plan(args.prompt, args.total_minutes, args.segment_seconds,
                                 args.fps, args.min_frames, args.frame_step)
  /\ UNCHANGED <<args, self, host, gen, log>>

SpecPlan == InitPlan /\ [][BuildSegmentsPlan]_vars

-----------------------------------------------------------------------------
(* The plugin in the host: the button calls _create_segments any number of *)
(* times, and between two calls the user may select another model.         *)

\* an empty prompt, a blank one and one of two sentences
UiPrompts == {<<>>, <<Blank>>, TwoUnits}

UiTotalMinutes == {MinutesGrain * k : k \in 0..1}

UiSegmentSeconds == {0, SegmentGrain * (MaxSegmentUnits \div 2 - 1), SegmentGrain * MaxSegmentUnits}

\* the generation dictionary before the first call
Gens == {EmptyDict, [queue |-> <<>>], [queue |-> <<>>, prompts_max |-> 0]}

Init ==
  /\ pc = "idle"
  /\ args = NoArgs
  /\ ret = <<>>
  /\ self \in [queue_html_container : BOOLEAN, update_queue_data : BOOLEAN]
  /\ host \in Hosts
  /\ gen \in Gens
  /\ log = NoLog

CreateSegments ==
  \E prompt \in UiPrompts, total_minutes \in UiTotalMinutes,
     segment_seconds \in UiSegmentSeconds :
    LET call == _create_segments(prompt, total_minutes, segment_seconds)
    IN  /\ Len(Get(call.gen, "queue", <<>>)) <= MaxQueue
        /\ pc' = "return"
        /\ args' = [prompt |-> prompt, total_minutes |-> total_minutes,
                    segment_seconds |-> segment_seconds]
        /\ ret' = call.ret
        /\ gen' = call.gen
        /\ log' = call.log
        /\ UNCHANGED <<self, host>>

\* the user selects another model or other settings in the host
SelectModel ==
  /\ host' \in Hosts \ {host}
  /\ pc' = "idle"
  /\ args' = NoArgs
  /\ ret' = <<>>
  /\ log' = NoLog
  /\ UNCHANGED <<self, gen>>

Next == CreateSegments \/ SelectModel

Spec == Init /\ [][Next]_vars

-----------------------------------------------------------------------------
(* Properties of _split_prompt, under SpecSplit *)

RECURSIVE Flatten(_)
Flatten(lists) ==
  IF lists = <<>> THEN <<>> ELSE Head(lists) \o Flatten(Tail(lists))

Repeat(x, n) == [k \in 1..n |-> x]

\* C5: for every prompt and every segments >= 1, _split_prompt returns a
\* list of exactly `segments` strings.
C5_SplitLength ==
  pc = "return" => Len(ret) = args.segments

\* three units cut for two segments: the unit count does not divide evenly
C5_Witness ==
  /\ pc = "return"
  /\ Len(Sentences(args.prompt)) = 3
  /\ args.segments = 2
  /\ Len(ret) = 2

\* C6: with units u_1..u_n (n >= 1), the chunks are the consecutive windows
\* of ceil(n / segments) units, a window that starts past the end is u_n
\* alone, and the units of the chunks in chunk order are u_1..u_n followed
\* by one u_n for every such window.
C6_SplitCoversInOrder ==
  (pc = "return" /\ Sentences(args.prompt) # <<>>) =>
    LET u == Sentences(args.prompt)
        n == Len(u)
        size == (n + args.segments - 1) \div args.segments
        expected(k) ==
          IF (k - 1) * size < n
          THEN SubSeq(u, (k - 1) * size + 1, Min(k * size, n))
          ELSE <<u[n]>>
        past == Cardinality({k \in 1..args.segments : (k - 1) * size >= n})
    IN  /\ \A k \in 1..args.segments : ret[k] = Join(expected(k))
        /\ Flatten([k \in 1..args.segments |-> Window(u, args.segments, k)])
             = u \o Repeat(u[n], past)

\* four units cut for three segments: windows of two, the third window
\* starts past the end and repeats the last unit
C6_Witness ==
  /\ pc = "return"
  /\ Len(Sentences(args.prompt)) = 4
  /\ args.segments = 3
  /\ ret[3] = Sentences(args.prompt)[4]
  /\ ret[2] # ret[3]

-----------------------------------------------------------------------------
(* Properties of _build_segments_plan, under SpecPlan *)

\* the local `duration` of the k-th segment (k = 1..) of the call under way
DurationOf(k) == duration(k - 1, args.total_minutes, args.segment_seconds)

RECURSIVE SumDurations(_)
SumDurations(k) == IF k = 0 THEN 0 ELSE DurationOf(k) + SumDurations(k - 1)

\* C1: every entry of the plan has a frames value that is a multiple of
\* frame_step and at least min_frames.
C1_FramesMultipleOfStep ==
  pc = "return" =>
    \A k \in 1..Len(ret) :
      /\ ret[k].frames % args.frame_step = 0
      /\ ret[k].frames >= args.min_frames

\* C4: the plan has N = max(1, ceil(total_minutes * 60 / segment_seconds))
\* entries; the i-th has index i and the i-th chunk of
\* _split_prompt(prompt, N) followed by the annotation of 'Segment i/N'.
C4_PlanCountIndexPrompt ==
  pc = "return" =>
    LET secs == args.total_minutes * 60
        N == Max(1, (secs + args.segment_seconds - 1) \div args.segment_seconds)
    IN  /\ Len(ret) = N
        /\ \A i \in 1..N :
             /\ ret[i].index = i
             /\ ret[i].prompt =
                  _split_prompt(args.prompt, N)[i]
                    \o <<" ", "(Segment ", ToString(i), "/", ToString(N),
                         ". Houd stijl, personages en camera gelijkmatig).">>

\* three segments from a total that the segment length does not divide,
\* the two sentences spread over them
C4_Witness ==
  /\ pc = "return"
  /\ Len(ret) = 3
  /\ (args.total_minutes * 60) % args.segment_seconds # 0
  /\ args.prompt = TwoUnits
  /\ ret[3].index = 3

C8_TruncatesToStep ==
  pc = "return" =>
    \A k \in 1..Len(ret) :
      LET raw == Round(DurationOf(k) * args.fps, Scale)
      IN  /\ ret[k].frames =
               Max(args.min_frames, (raw \div args.frame_step) * args.frame_step)
          /\ ret[k].frames > args.min_frames => ret[k].frames <= raw

\* C8 amended: frames = max(min_frames, round(duration * fps / frame_step)
\* * frame_step), the quotient rounded to the nearest integer, ties to even;
\* a frame count above min_frames is a multiple of frame_step at most
\* frame_step / 2 away from duration * fps, on either side.
C8_RoundsToNearestStep ==
  pc = "return" =>
    \A k \in 1..Len(ret) :
      LET num == DurationOf(k) * args.fps
          den == Scale * args.frame_step
          q == num \div den
          nearest == IF 2 * (num % den) < den THEN q
                     ELSE IF 2 * (num % den) > den THEN q + 1
                     ELSE IF q % 2 = 0 THEN q ELSE q + 1
          off == ret[k].frames * Scale - num
      IN  /\ ret[k].frames = Max(args.min_frames, nearest * args.frame_step)
          /\ ret[k].frames > args.min_frames =>
               /\ ret[k].frames % args.frame_step = 0
               /\ 2 * off <= args.frame_step * Scale
               /\ -2 * off <= args.frame_step * Scale

\* a frame count above min_frames that exceeds duration * fps, for a
\* duration of a whole number of seconds
C8_Witness ==
  /\ pc = "return"
  /\ args.segment_seconds % Scale = 0
  /\ ret[1].frames > args.min_frames
  /\ ret[1].frames * Scale > DurationOf(1) * args.fps
  /\ args.frame_step > 1

\* C10: the last segment lasts exactly segment_seconds, all segments have
\* the same duration and the same frames, and the planned total is
\* N * segment_seconds, which exceeds total_seconds by less than one
\* segment_seconds.
C10_UniformSegments ==
  pc = "return" =>
    LET N == Len(ret)
    IN  /\ DurationOf(N) = args.segment_seconds
        /\ \A j, k \in 1..N :
             /\ DurationOf(j) = DurationOf(k)
             /\ ret[j].seconds = ret[k].seconds
             /\ ret[j].frames = ret[k].frames
        /\ SumDurations(N) = N * args.segment_seconds
        /\ N * args.segment_seconds >= args.total_minutes * 60
        /\ N * args.segment_seconds - args.total_minutes * 60 < args.segment_seconds

\* a plan of several segments whose total is not a whole number of
\* segments: the remainder is shorter than a segment
C10_Witness ==
  /\ pc = "return"
  /\ Len(ret) >= 3
  /\ (args.total_minutes * 60) % args.segment_seconds # 0
  /\ ret[Len(ret)].frames > args.min_frames

-----------------------------------------------------------------------------
(* Properties of _create_segments, under Spec *)

Queue(g) == Get(g, "queue", <<>>)

PromptsMax(g) == Get(g, "prompts_max", 0)

UserInputsValid(a) ==
  /\ Strip(a.prompt) # <<>>
  /\ a.total_minutes > 0
  /\ a.segment_seconds > 0

HostValid(h) ==
  /\ h.settings # <<>>
  /\ h.base_model_type # "None"
  /\ h.fps.numeric
  /\ h.fps.value > 0
  /\ h.min_frames > 0
  /\ h.frame_step > 0

\* C2: with valid inputs a call makes one add_video_task call per segment of
\* the plan, in plan order, the k-th with the k-th segment's prompt, frames
\* (as video_length), index and the segment count; the queue grows by these
\* N jobs, appended after the jobs already queued, and prompts_max by N.
C2_EnqueuesPlanInOrder ==
  [][(pc' = "return" /\ UserInputsValid(args') /\ HostValid(host)) =>
       LET p == _build_segments_plan(args'.prompt, args'.total_minutes,
                                     args'.segment_seconds, host.fps.value,
                                     host.min_frames, host.frame_step)
           N == Len(p)
       IN  /\ log'.core
           /\ Len(log'.tasks) = N
           /\ \A k \in 1..N :
                /\ log'.tasks[k].prompt = p[k].prompt
                /\ log'.tasks[k].video_length = p[k].frames
                /\ log'.tasks[k].plugin_data.auto_video_composer.segment = k
                /\ log'.tasks[k].plugin_data.auto_video_composer.total_segments = N
           /\ Queue(gen') = Queue(gen) \o log'.tasks
           /\ Len(Queue(gen')) = Len(Queue(gen)) + N
           /\ PromptsMax(gen') = PromptsMax(gen) + N]_vars

\* a call that appended two jobs behind a job of an earlier call
C2_Witness ==
  /\ pc = "return"
  /\ log.core
  /\ Len(log.tasks) = 2
  /\ Len(Queue(gen)) = 3
  /\ PromptsMax(gen) = 3
  /\ gen["queue"][3].plugin_data.auto_video_composer.segment = 2

UserMessages ==
  <<"Prompt mag niet leeg zijn.",
    "Totale duur moet groter dan nul zijn.",
    "Segmentlengte moet groter dan nul zijn.">>

\* C3: a call whose preconditions fail (user inputs or host configuration)
\* never reaches _build_segments_plan or add_video_task, leaves the queue
\* and prompts_max as they were and returns a warning; the user-input
\* failures have three distinct messages, tried in the order prompt, total
\* duration, segment length.
C3_FailuresAbortBeforeCore ==
  [][(pc' = "return" /\ ~(UserInputsValid(args') /\ HostValid(host))) =>
       /\ ~log'.core
       /\ log'.tasks = <<>>
       /\ gen' = gen
       /\ Len(log'.warnings) = 1
       /\ Len(ret') >= 1
       /\ ret'[1] = <<WarningSign, log'.warnings[1]>>
       /\ Cardinality({UserMessages[i] : i \in 1..3}) = 3
       /\ log'.warnings[1] =
            (IF Strip(args'.prompt) = <<>> THEN UserMessages[1]
             ELSE IF args'.total_minutes <= 0 THEN UserMessages[2]
             ELSE IF args'.segment_seconds <= 0 THEN UserMessages[3]
             ELSE log'.warnings[1])
       /\ UserInputsValid(args') =>
            \A i \in 1..3 : log'.warnings[1] # UserMessages[i]]_vars

\* a call that failed on the host's frame constants while jobs of an
\* earlier call were queued
C3_Witness ==
  /\ pc = "return"
  /\ UserInputsValid(args)
  /\ host.frame_step = 0
  /\ Len(log.warnings) = 1
  /\ Len(Queue(gen)) >= 1
  /\ PromptsMax(gen) = Len(Queue(gen))

\* C9: with a queue_html_container (two outputs wired) every return of
\* _create_segments is a pair, without one every return is the single text.
C9_ReturnShapeMatchesOutputs ==
  pc = "return" => Len(ret) = (IF self.queue_html_container THEN 2 ELSE 1)

====
